---- MODULE Spec2Model ----
(***************************************************************************)
(* dependency-bot: a webhook handler that, for a pull_request event,       *)
(* compares base and head, fetches both versions of every candidate        *)
(* package.json, diffs the declared dependencies and posts the summary as  *)
(* a commit comment (src/src/index.js).                                    *)
(*                                                                         *)
(* Three specifications share the definitions of the pure functions:       *)
(*   SpecSection   diffdeps and formatResponse on manifest pairs with one  *)
(*                 section, drawn from every object over Names and Ranges; *)
(*   SpecManifest  the per-file change list on manifest pairs with two     *)
(*                 of the five sections;                                   *)
(*   Spec          the coroutine run, one event from arrival to its        *)
(*                 result, with the API calls it issues and their          *)
(*                 completions.                                            *)
(*                                                                         *)
(* JavaScript values.  An object is the sequence of its own enumerable     *)
(* entries in for-in order, wrapped in a record that tells it from         *)
(* undefined and null.  A text (a string the code builds) is the sequence  *)
(* of the pieces it is concatenated from.  A file path is the sequence of  *)
(* its "/"-separated segments.                                             *)
(***************************************************************************)
EXTENDS Integers, Sequences, FiniteSets, TLC

VARIABLES
    \* ---- SpecSection, SpecManifest ----
    dpc,          \* "input" | "diffed" | "formatted"
    original,     \* the parsed manifest at the base commit
    current,      \* the parsed manifest at the head commit
    sections,     \* DEPENDENCY_KEYS.map(key => diffdeps(...)), index.js:49
    changes,      \* the file's change list, index.js:50
    comment,      \* formatResponse's text
    \* ---- Spec ----
    pc,           \* where the coroutine run is suspended
    ctx,          \* the webtask context of the event
    store,        \* the repository: the blob of package.json at base and at head
    diff,         \* diff.files, the compare response
    files,        \* the candidate files (index.js:29), later the FileDiffs (index.js:44-52)
    newBlobs,     \* slots of Promise.all over the head blobs
    oldBlobs,     \* slots of Promise.all over the base blobs
    calls,        \* the API calls issued so far, in order
    result        \* what run resolves or rejects with

diffVars == <<dpc, original, current, sections, changes, comment>>
runVars == <<pc, ctx, store, diff, files, newBlobs, oldBlobs, calls, result>>
vars == <<dpc, original, current, sections, changes, comment,
          pc, ctx, store, diff, files, newBlobs, oldBlobs, calls, result>>

----------------------------------------------------------------------------
(* Program constants, index.js:6-14 *)

EVENT_NAME == "pull_request"
VALID_ACTIONS == <<"opened", "synchronize">>
DEPENDENCY_KEYS ==
    << "bundledDependencies",
       "dependencies",
       "devDependencies",
       "optionalDependencies",
       "peerDependencies" >>

----------------------------------------------------------------------------
(* JavaScript values *)

undefined == [type |-> "undefined"]
null == [type |-> "null"]
Object(entries) == [type |-> "object", entries |-> entries]
Array(items) == [type |-> "array", items |-> items]

\* !v for the values a manifest property or a diffdeps result can be
Falsy(v) == v.type \in {"undefined", "null"}

\* for (key in obj): the keys in the object's own order
Keys(obj) == [i \in 1..Len(obj.entries) |-> obj.entries[i].key]

hasOwn(obj, key) == \E i \in 1..Len(obj.entries) : obj.entries[i].key = key

\* obj[key] for an own key of obj
Get(obj, key) ==
    obj.entries[CHOOSE i \in 1..Len(obj.entries) : obj.entries[i].key = key].value

\* manifest[key]: a manifest maps the section keys it has to objects
Prop(manifest, key) == IF key \in DOMAIN manifest THEN manifest[key] ELSE undefined

\* pkg[field] is truthy: the field is set and is not the empty string
Truthy(pkg, field) == field \in DOMAIN pkg /\ pkg[field] # ""

RECURSIVE Concat(_)
Concat(seqs) == IF seqs = <<>> THEN <<>> ELSE Head(seqs) \o Concat(Tail(seqs))

----------------------------------------------------------------------------
(* diffdeps, index.js:75-101 *)

\* the records pushed for the keys ks, index.js:82-85, 88-91 and 94-98
pushAdded(cur, ks) ==
    [i \in 1..Len(ks) |-> [name |-> ks[i], current |-> Get(cur, ks[i])]]
pushRemoved(orig, ks) ==
    [i \in 1..Len(ks) |-> [name |-> ks[i], previous |-> Get(orig, ks[i])]]
pushChanged(orig, cur, ks) ==
    [i \in 1..Len(ks) |->
        [name |-> ks[i], current |-> Get(cur, ks[i]), previous |-> Get(orig, ks[i])]]

diffdeps_treatsMissingAsEmpty(orig, cur) ==
    LET o == IF Falsy(orig) THEN Object(<<>>) ELSE orig
        c == IF Falsy(cur) THEN Object(<<>>) ELSE cur
    IN  Array(pushAdded(c, SelectSeq(Keys(c), LAMBDA k : ~hasOwn(o, k)))
              \o pushRemoved(o, SelectSeq(Keys(o), LAMBDA k : ~hasOwn(c, k)))
              \o pushChanged(o, c, SelectSeq(Keys(o), LAMBDA k :
                                       hasOwn(c, k) /\ Get(o, k) # Get(c, k))))

diffdeps_noEqualityTest(orig, cur) ==
    IF Falsy(orig) \/ Falsy(cur) THEN null
    ELSE Array(pushAdded(cur, SelectSeq(Keys(cur), LAMBDA k : ~hasOwn(orig, k)))
               \o pushRemoved(orig, SelectSeq(Keys(orig), LAMBDA k : ~hasOwn(cur, k)))
               \o pushChanged(orig, cur, SelectSeq(Keys(orig), LAMBDA k : hasOwn(cur, k))))

diffdeps_removedFirst(orig, cur) ==
    IF Falsy(orig) \/ Falsy(cur) THEN null
    ELSE Array(pushRemoved(orig, SelectSeq(Keys(orig), LAMBDA k : ~hasOwn(cur, k)))
               \o pushAdded(cur, SelectSeq(Keys(cur), LAMBDA k : ~hasOwn(orig, k)))
               \o pushChanged(orig, cur, SelectSeq(Keys(orig), LAMBDA k :
                                  hasOwn(cur, k) /\ Get(orig, k) # Get(cur, k))))

diffdeps_changedKeepsCurrent(orig, cur) ==
    IF Falsy(orig) \/ Falsy(cur) THEN null
    ELSE Array(pushAdded(cur, SelectSeq(Keys(cur), LAMBDA k : ~hasOwn(orig, k)))
               \o pushRemoved(orig, SelectSeq(Keys(orig), LAMBDA k : ~hasOwn(cur, k)))
               \o pushChanged(cur, cur, SelectSeq(Keys(orig), LAMBDA k :
                                  hasOwn(cur, k) /\ Get(orig, k) # Get(cur, k))))

diffdeps(orig, cur) ==
    IF Falsy(orig) \/ Falsy(cur) THEN null
    ELSE Array(\* for (key in current) if (!hasOwn(original, key))
               pushAdded(cur, SelectSeq(Keys(cur), LAMBDA k : ~hasOwn(orig, k)))
               \* for (key in original) if (!hasOwn(current, key))
               \o pushRemoved(orig, SelectSeq(Keys(orig), LAMBDA k : ~hasOwn(cur, k)))
               \* for (key in original) if (hasOwn(current, key) && original[key] !== current[key])
               \o pushChanged(orig, cur, SelectSeq(Keys(orig), LAMBDA k :
                                  hasOwn(cur, k) /\ Get(orig, k) # Get(cur, k))))

\* index.js:49: DEPENDENCY_KEYS.map(key => diffdeps(file.original[key], file.current[key]))
sectionDiffs(orig, cur) ==
    [i \in 1..Len(DEPENDENCY_KEYS) |->
        diffdeps(Prop(orig, DEPENDENCY_KEYS[i]), Prop(cur, DEPENDENCY_KEYS[i]))]

\* lodash flatten, one level: an array element is replaced by its items
flatten(arr) ==
    Concat([i \in 1..Len(arr) |-> IF arr[i].type = "array" THEN arr[i].items ELSE <<arr[i]>>])

\* index.js:50: flatten(dependencies).filter(Boolean)
fileChanges(orig, cur) ==
    SelectSeq(flatten(sectionDiffs(orig, cur)), LAMBDA el : el # null)

----------------------------------------------------------------------------
(* formatResponse, index.js:103-117 *)

added(file) ==
    SelectSeq(file.dependencies, LAMBDA pkg : ~Truthy(pkg, "previous") /\ Truthy(pkg, "current"))
changed(file) ==
    SelectSeq(file.dependencies, LAMBDA pkg : Truthy(pkg, "previous") /\ Truthy(pkg, "current"))
removed(file) ==
    SelectSeq(file.dependencies, LAMBDA pkg : Truthy(pkg, "previous") /\ ~Truthy(pkg, "current"))

\* `${pkg.previous}`: a missing field renders as the word undefined
Show(pkg, field) == IF field \in DOMAIN pkg THEN pkg[field] ELSE "undefined"

\* the lines pushed for a group of records, index.js:111, 112 and 113
changedLines(pkgs) ==
    [i \in 1..Len(pkgs) |->
        <<"+ ", pkgs[i].name, "@", Show(pkgs[i], "current"),
          " (from ", Show(pkgs[i], "previous"), ")">>]
addedLines(pkgs) ==
    [i \in 1..Len(pkgs) |-> <<"+ ", pkgs[i].name, "@", Show(pkgs[i], "current")>>]
removedLines(pkgs) ==
    [i \in 1..Len(pkgs) |-> <<"- ", pkgs[i].name, "@", Show(pkgs[i], "previous")>>]

\* the lines of the code block, index.js:110-113
block(file) ==
    changedLines(changed(file)) \o addedLines(added(file)) \o removedLines(removed(file))

RECURSIVE Join(_, _)
Join(lines, sep) ==
    IF lines = <<>> THEN <<>>
    ELSE IF Len(lines) = 1 THEN lines[1]
    ELSE lines[1] \o <<sep>> \o Join(Tail(lines), sep)

\* JSON.stringify of a file name
Quote(path) == <<"\"">> \o Join([i \in 1..Len(path) |-> <<path[i]>>], "/") \o <<"\"">>

\* index.js:109
header(file) ==
    <<"\n">> \o Quote(file.name)
    \o <<" *(", ToString(Len(changed(file))), " modified, ",
         ToString(Len(added(file))), " added, ",
         ToString(Len(removed(file))), " removed)*:\n">>

\* the code fence, three backquotes (a character TLA+ strings cannot hold)
Fence == "[fence]"

\* index.js:114
formatFile(file) ==
    header(file) \o <<Fence, "\n">> \o Join(block(file), "\n") \o <<"\n", Fence>>

formatResponse(fs, base, head) ==
    <<base.sha, "...", head.sha, " includes dependency changes!\n">>
    \o Concat([i \in 1..Len(fs) |-> formatFile(fs[i])])

----------------------------------------------------------------------------
(* The pure functions on bounded inputs *)

Names == {"a", "b", "c"}
Ranges == {"", "^1.0.0"}

\* the key orders an object over a subset of names can have
KeyOrders(names) ==
    { s \in UNION { [1..n -> names] : n \in 0..Cardinality(names) } :
        \A i, j \in 1..Len(s) : i # j => s[i] # s[j] }

\* every object whose keys are some of names, in any order, the value of key n
\* taken from rangesOf[n]
Objects(names, rangesOf) ==
    UNION { { Object([i \in 1..Len(s) |-> [key |-> s[i], value |-> v[i]]]) :
                v \in { w \in [1..Len(s) -> UNION {rangesOf[n] : n \in names}] :
                          \A i \in 1..Len(s) : w[i] \in rangesOf[s[i]] } } :
            s \in KeyOrders(names) }

\* SpecSection: one section, any object over Names and Ranges, or no section
SectionValues == Objects(Names, [n \in Names |-> Ranges]) \cup {undefined}

\* SpecManifest: two sections per manifest, over the packages a and b; the
\* original has both at ^1.0.0, the current has a at ^2.0.0 and b at ^1.0.0
OriginalValues ==
    Objects({"a", "b"}, [n \in {"a", "b"} |-> {"^1.0.0"}]) \cup {undefined}
CurrentValues ==
    Objects({"a", "b"}, [n \in {"a", "b"} |-> IF n = "a" THEN {"^2.0.0"} ELSE {"^1.0.0"}])
    \cup {undefined}

\* a manifest holding v1 under key k1 and v2 under key k2, a key left out when undefined
Manifest(k1, v1, k2, v2) ==
    LET present == {k \in {k1, k2} : (IF k = k1 THEN v1 ELSE v2) # undefined}
    IN  [k \in present |-> IF k = k1 THEN v1 ELSE v2]

TheFile == [name |-> <<"package.json">>, dependencies |-> changes]
BaseRef == [sha |-> "base"]
HeadRef == [sha |-> "head"]

Idle == <<"idle">>

RunIdle ==
    /\ pc = "idle" /\ ctx = Idle /\ store = Idle /\ diff = Idle /\ files = Idle
    /\ newBlobs = Idle /\ oldBlobs = Idle /\ calls = Idle /\ result = Idle

\* a manifest pair with the one section key DEPENDENCY_KEYS[i], which either
\* manifest may lack
InitSection ==
    /\ dpc = "input"
    /\ \E i \in 1..Len(DEPENDENCY_KEYS) :
         \E o, c \in SectionValues :
            /\ original = Manifest(DEPENDENCY_KEYS[i], o, DEPENDENCY_KEYS[i], o)
            /\ current = Manifest(DEPENDENCY_KEYS[i], c, DEPENDENCY_KEYS[i], c)
    /\ sections = <<>>
    /\ changes = <<>>
    /\ comment = <<>>
    /\ RunIdle

InitManifest ==
    /\ dpc = "input"
    /\ \E i, j \in 1..Len(DEPENDENCY_KEYS) :
         /\ i < j
         /\ \E o1, o2 \in OriginalValues, c1, c2 \in CurrentValues :
              /\ original = Manifest(DEPENDENCY_KEYS[i], o1, DEPENDENCY_KEYS[j], o2)
              /\ current = Manifest(DEPENDENCY_KEYS[i], c1, DEPENDENCY_KEYS[j], c2)
    /\ sections = <<>>
    /\ changes = <<>>
    /\ comment = <<>>
    /\ RunIdle

\* index.js:48-52
Diff ==
    /\ dpc = "input"
    /\ sections' = sectionDiffs(original, current)
    /\ changes' = fileChanges(original, current)
    /\ dpc' = "diffed"
    /\ UNCHANGED <<original, current, comment>>
    /\ UNCHANGED runVars

\* index.js:54-60: formatResponse is reached only with non-empty change lists
Format ==
    /\ dpc = "diffed"
    /\ Len(changes) > 0
    /\ comment' = formatResponse(<<TheFile>>, BaseRef, HeadRef)
    /\ dpc' = "formatted"
    /\ UNCHANGED <<original, current, sections, changes>>
    /\ UNCHANGED runVars

NextDiff == Diff \/ Format

SpecSection == InitSection /\ [][NextDiff]_vars

SpecManifest == InitManifest /\ [][NextDiff]_vars

----------------------------------------------------------------------------
(* run, index.js:17-73, and assertRequestAuth, index.js:119-133 *)

MaxFiles == 2          \* files a compare response lists

NoChange == <<"no dependencies changed">>
Pending == [type |-> "pending"]

\* the x-hub-signature header: the HMAC of the body under the shared secret,
\* some other digest, or no header at all
Hmac == "sha1=hmac(body)"
Signatures == {Hmac, "sha1=0000", "none"}

\* sign, index.js:149-151
sign(c) == Hmac

\* equal, index.js:140-147
equal(actual, expected) == expected # "none" /\ actual = expected

assertRequestAuth_noActionTest(c) ==
    IF c.event # EVENT_NAME THEN "github event not supported"
    ELSE IF ~equal(sign(c), c.signature) THEN "invalid signature"
    ELSE "ok"

\* the error assertRequestAuth throws, or "ok"
assertRequestAuth(c) ==
    IF c.event # EVENT_NAME THEN "github event not supported"
    ELSE IF ~equal(sign(c), c.signature) THEN "invalid signature"
    ELSE IF \A i \in 1..Len(VALID_ACTIONS) : VALID_ACTIONS[i] # c.action
         THEN "action not supported"
    ELSE "ok"

\* /^package\.json$/.test(filename): the whole file name is package.json, so
\* the path has that one segment
testPackageJson(filename) == filename = <<"package.json">>

\* index.js:29
candidateFiles(fs) ==
    SelectSeq(fs, LAMBDA el : el.status = "modified" /\ testPackageJson(el.filename))

isDryRun_never(c) == FALSE

\* index.js:63: ctx.query.dry is truthy
isDryRun(c) == Truthy(c.query, "dry")

compareCall(c) ==
    [api |-> "compare", repo |-> c.base.repo, base |-> c.base.sha, head |-> c.head.sha]
\* index.js:34-38 and 39-43: both groups ask the head repository
blobCall(c, ref, file) ==
    [api |-> "blob", repo |-> c.head.repo, ref |-> ref, path |-> file.filename]
commentCall(c, body) ==
    [api |-> "comment", repo |-> c.base.repo, sha |-> c.head.sha, body |-> body]

\* the content the API serves for a path at a commit; package.json is the only
\* path run asks for
BlobAt(ref, path) == store[ref]

parses(blob) == blob.type = "json"
\* JSON.parse(blob.toString()) of a blob that parses
JSONparse(blob) == blob.value

fileDiffs_swapped(fs, olds, news) ==
    [index \in 1..Len(fs) |->
        [name |-> fs[index].filename,
         dependencies |-> fileChanges(JSONparse(news[index]), JSONparse(olds[index]))]]

\* index.js:44-52
fileDiffs(fs, olds, news) ==
    [index \in 1..Len(fs) |->
        [name |-> fs[index].filename,
         dependencies |-> fileChanges(JSONparse(olds[index]), JSONparse(news[index]))]]

anyEmpty_skipsFirst(fs) == \E index \in 2..Len(fs) : Len(fs[index].dependencies) = 0

\* index.js:54-58
anyEmpty(fs) == \E index \in 1..Len(fs) : Len(fs[index].dependencies) = 0

Filled(slots) == \A i \in 1..Len(slots) : slots[i] # Pending

\* ---- the inputs ----

Paths ==
    { <<"package.json">>, <<"sub", "package.json">>, <<"package.json.bak">>,
      <<"mypackage.json">>, <<"sub", "mypackage.json">> }
Statuses == {"modified", "added", "removed", "renamed"}

\* a compare response lists each changed path once
CompareResponses ==
    { fs \in UNION { [1..n -> [filename : Paths, status : Statuses]] : n \in 0..MaxFiles } :
        \A i, j \in 1..Len(fs) : i # j => fs[i].filename # fs[j].filename }

Dep(n, r) == [key |-> n, value |-> r]
StoreManifests ==
    { <<>>,
      [dependencies |-> Object(<<Dep("a", "^1.0.0"), Dep("b", "^1.0.0")>>)],
      [dependencies |-> Object(<<Dep("a", "^2.0.0"), Dep("c", "1.0.0")>>),
       devDependencies |-> Object(<<Dep("d", "^1.0.0")>>)] }
StoreBlobs ==
    { [type |-> "json", value |-> m] : m \in StoreManifests } \cup { [type |-> "garbage"] }

Contexts ==
    { [event |-> e, signature |-> s, action |-> a, query |-> q,
       base |-> [sha |-> "base", repo |-> "upstream/repo"],
       head |-> [sha |-> "head", repo |-> "fork/repo"]] :
        e \in {"pull_request", "push"}, s \in Signatures,
        a \in {"opened", "synchronize", "closed"},
        q \in {<<>>, [dry |-> ""], [dry |-> "1"]} }

DiffIdle ==
    /\ dpc = "idle" /\ original = Idle /\ current = Idle
    /\ sections = Idle /\ changes = Idle /\ comment = Idle

Init ==
    /\ pc = "start"
    /\ ctx \in Contexts
    /\ store \in [{"base", "head"} -> StoreBlobs]
    /\ diff = <<>>
    /\ files = <<>>
    /\ newBlobs = <<>>
    /\ oldBlobs = <<>>
    /\ calls = <<>>
    /\ result = <<>>
    /\ DiffIdle

\* index.js:17-26: run up to its first yield
Start ==
    /\ pc = "start"
    /\ IF assertRequestAuth(ctx) # "ok"
       THEN /\ pc' = "error"
            /\ result' = [error |-> assertRequestAuth(ctx)]
            /\ calls' = calls
       ELSE /\ pc' = "compare"
            /\ result' = result
            /\ calls' = Append(calls, compareCall(ctx))
    /\ UNCHANGED <<ctx, store, diff, files, newBlobs, oldBlobs>>
    /\ UNCHANGED diffVars

\* index.js:22-38: the compare call resolves, run filters and fans out
CompareDone ==
    /\ pc = "compare"
    /\ \E response \in CompareResponses :
         /\ diff' = response
         /\ files' = candidateFiles(response)
         /\ IF Len(files') = 0
            THEN /\ pc' = "done"
                 /\ result' = [message |-> NoChange]
                 /\ calls' = calls
                 /\ newBlobs' = newBlobs
            ELSE /\ pc' = "newBlobs"
                 /\ result' = result
                 /\ calls' = calls \o [i \in 1..Len(files') |-> blobCall(ctx, ctx.head.sha, files'[i])]
                 /\ newBlobs' = [i \in 1..Len(files') |-> Pending]
    /\ UNCHANGED <<ctx, store, oldBlobs>>
    /\ UNCHANGED diffVars

\* an API call rejects: the error reaches the caller unmodified
CallFails ==
    /\ pc \in {"compare", "newBlobs", "oldBlobs", "comment"}
    /\ pc' = "error"
    /\ result' = [error |-> "api error"]
    /\ UNCHANGED <<ctx, store, diff, files, newBlobs, oldBlobs, calls>>
    /\ UNCHANGED diffVars

\* one head blob arrives; the last one resolves Promise.all and run issues
\* the base blob fetches, index.js:34-43
NewBlobDone(i) ==
    /\ pc = "newBlobs"
    /\ newBlobs[i] = Pending
    /\ newBlobs' = [newBlobs EXCEPT ![i] = BlobAt(ctx.head.sha, files[i].filename)]
    /\ IF Filled(newBlobs')
       THEN /\ pc' = "oldBlobs"
            /\ calls' = calls \o [j \in 1..Len(files) |-> blobCall(ctx, ctx.base.sha, files[j])]
            /\ oldBlobs' = [j \in 1..Len(files) |-> Pending]
       ELSE UNCHANGED <<pc, calls, oldBlobs>>
    /\ UNCHANGED <<ctx, store, diff, files, result>>
    /\ UNCHANGED diffVars

\* one base blob arrives; the last one resolves Promise.all and run goes on
\* to its end or to the comment call, index.js:39-71
OldBlobDone(i) ==
    /\ pc = "oldBlobs"
    /\ oldBlobs[i] = Pending
    /\ oldBlobs' = [oldBlobs EXCEPT ![i] = BlobAt(ctx.base.sha, files[i].filename)]
    /\ IF ~Filled(oldBlobs')
       THEN UNCHANGED <<pc, files, calls, result>>
       ELSE IF \E j \in 1..Len(files) : ~parses(oldBlobs'[j]) \/ ~parses(newBlobs[j])
       THEN \* JSON.parse throws
            /\ pc' = "error"
            /\ result' = [error |-> "SyntaxError"]
            /\ UNCHANGED <<files, calls>>
       ELSE /\ files' = fileDiffs(files, oldBlobs', newBlobs)
            /\ IF anyEmpty(files')
               THEN /\ pc' = "done"
                    /\ result' = [message |-> NoChange]
                    /\ calls' = calls
               ELSE IF isDryRun(ctx)
               THEN /\ pc' = "done"
                    /\ result' = [message |-> formatResponse(files', ctx.base, ctx.head)]
                    /\ calls' = calls
               ELSE /\ pc' = "comment"
                    /\ result' = result
                    /\ calls' = Append(calls,
                                       commentCall(ctx, formatResponse(files', ctx.base, ctx.head)))
    /\ UNCHANGED <<ctx, store, diff, newBlobs>>
    /\ UNCHANGED diffVars

\* index.js:67-72: the comment call resolves and run returns its response
CommentDone ==
    /\ pc = "comment"
    /\ pc' = "done"
    /\ result' = [comment |-> calls[Len(calls)].body]
    /\ UNCHANGED <<ctx, store, diff, files, newBlobs, oldBlobs, calls>>
    /\ UNCHANGED diffVars

Next ==
    \/ Start
    \/ CompareDone
    \/ CallFails
    \/ \E i \in 1..MaxFiles : i <= Len(newBlobs) /\ NewBlobDone(i)
    \/ \E i \in 1..MaxFiles : i <= Len(oldBlobs) /\ OldBlobDone(i)
    \/ CommentDone

Spec == Init /\ [][Next]_vars

----------------------------------------------------------------------------
(* Properties of the diff engine and the formatter *)

KeyIndices == 1..Len(DEPENDENCY_KEYS)
Orig(k) == Prop(original, DEPENDENCY_KEYS[k])
Cur(k) == Prop(current, DEPENDENCY_KEYS[k])
InBoth(k) == DEPENDENCY_KEYS[k] \in DOMAIN original /\ DEPENDENCY_KEYS[k] \in DOMAIN current
Items(k) == IF sections[k] = null THEN <<>> ELSE sections[k].items

IsAdded(r) == DOMAIN r = {"name", "current"}
IsRemoved(r) == DOMAIN r = {"name", "previous"}
IsChanged(r) == DOMAIN r = {"name", "current", "previous"}

\* C3: a section key missing from the original manifest, from the current one
\* or from both makes diffdeps return null, and the file's change list is made
\* of the records of the sections present in both manifests and of nothing
\* else; a section present in both, even an empty one, is diffed to an array.
C3_MissingSectionIsAbsent ==
    dpc # "input" =>
        /\ \A k \in KeyIndices :
             IF InBoth(k) THEN sections[k].type = "array" ELSE sections[k] = null
        /\ changes = Concat([k \in KeyIndices |->
                               IF InBoth(k) THEN sections[k].items ELSE <<>>])

\* a section only the current manifest has, with packages in it, next to a
\* section both have, one of them empty: only the latter contributes
C3_Witness ==
    /\ dpc = "diffed"
    /\ \E k, m \in KeyIndices :
         /\ DEPENDENCY_KEYS[k] \notin DOMAIN original
         /\ DEPENDENCY_KEYS[k] \in DOMAIN current
         /\ Len(Cur(k).entries) = 2
         /\ sections[k] = null
         /\ InBoth(m)
         /\ Orig(m) = Object(<<>>)
         /\ Len(sections[m].items) = 2
         /\ changes = sections[m].items

\* the records diffdeps owes for package n between the objects o and c
Owed(o, c, n) ==
    IF hasOwn(c, n) /\ ~hasOwn(o, n) THEN {[name |-> n, current |-> Get(c, n)]}
    ELSE IF hasOwn(o, n) /\ ~hasOwn(c, n) THEN {[name |-> n, previous |-> Get(o, n)]}
    ELSE IF hasOwn(o, n) /\ hasOwn(c, n) /\ Get(o, n) # Get(c, n)
         THEN {[name |-> n, current |-> Get(c, n), previous |-> Get(o, n)]}
    ELSE {}

\* C4: for a section present in both manifests diffdeps returns exactly one
\* record per package whose state differs (Added, Removed or Changed, with the
\* ranges of that package) and no record for a package with the same range in
\* both, or in neither.
C4_OneRecordPerDifference ==
    dpc # "input" =>
        \A k \in KeyIndices : InBoth(k) =>
            /\ \A n \in Names :
                 LET at == {i \in 1..Len(Items(k)) : Items(k)[i].name = n}
                 IN  /\ {Items(k)[i] : i \in at} = Owed(Orig(k), Cur(k), n)
                     /\ Cardinality(at) = Cardinality(Owed(Orig(k), Cur(k), n))
            /\ \A i \in 1..Len(Items(k)) : Items(k)[i].name \in Names

\* a section whose diff is an Added and a Changed record, with a third
\* package whose range is the same on both sides
C4_Witness ==
    /\ dpc = "diffed"
    /\ \E k \in KeyIndices :
         /\ InBoth(k)
         /\ Len(Items(k)) = 2
         /\ IsAdded(Items(k)[1])
         /\ IsChanged(Items(k)[2])
         /\ \E n \in Names : hasOwn(Orig(k), n) /\ hasOwn(Cur(k), n)
                             /\ Get(Orig(k), n) = Get(Cur(k), n)

\* the position of key n in the for-in order of obj
KeyPos(obj, n) == CHOOSE i \in 1..Len(obj.entries) : obj.entries[i].key = n
Group(r) == IF IsAdded(r) THEN 1 ELSE IF IsRemoved(r) THEN 2 ELSE 3

\* C5: the change list is the records of the five sections in the order of
\* DEPENDENCY_KEYS, and within a section the Added records come first, in the
\* current manifest's key order, then the Removed ones, in the original
\* manifest's key order, then the Changed ones.
C5_ChangeListOrder ==
    dpc # "input" =>
        /\ Len(sections) = Len(DEPENDENCY_KEYS)
        /\ changes = Concat([k \in KeyIndices |-> Items(k)])
        /\ \A k \in KeyIndices :
             /\ \A i \in 1..Len(Items(k)) :
                  hasOwn(Orig(k), Items(k)[i].name) \/ hasOwn(Cur(k), Items(k)[i].name)
             /\ \A i, j \in 1..Len(Items(k)) : i < j =>
                  LET r == Items(k)[i]
                      s == Items(k)[j]
                  IN  /\ Group(r) <= Group(s)
                      /\ IsAdded(r) /\ IsAdded(s) =>
                           KeyPos(Cur(k), r.name) < KeyPos(Cur(k), s.name)
                      /\ IsRemoved(r) /\ IsRemoved(s) =>
                           KeyPos(Orig(k), r.name) < KeyPos(Orig(k), s.name)

\* an earlier section with an Added, then a Changed record, and a later one
\* with two Added records in the key order b, a
C5_Witness ==
    /\ dpc = "diffed"
    /\ \E k, m \in KeyIndices :
         /\ k < m
         /\ Len(Items(k)) = 2 /\ IsAdded(Items(k)[1]) /\ IsChanged(Items(k)[2])
         /\ Len(Items(m)) = 2 /\ IsAdded(Items(m)[1]) /\ IsAdded(Items(m)[2])
         /\ Items(m)[1].name = "b" /\ Items(m)[2].name = "a"
         /\ changes = Items(k) \o Items(m)

\* a record with the roles of previous and current exchanged
Swap(r) ==
    IF IsAdded(r) THEN [name |-> r.name, previous |-> r.current]
    ELSE IF IsRemoved(r) THEN [name |-> r.name, current |-> r.previous]
    ELSE [name |-> r.name, current |-> r.previous, previous |-> r.current]

Range(s) == {s[i] : i \in 1..Len(s)}

\* C6: per section, the diff of (current, original) is absent exactly when the
\* diff of (original, current) is, names the same packages, and its records
\* are the records of the latter with previous and current exchanged.
C6_SwapSymmetry ==
    dpc # "input" =>
        \A k \in KeyIndices :
            LET back == diffdeps(Cur(k), Orig(k))
            IN  IF sections[k] = null THEN back = null
                ELSE /\ back # null
                     /\ Len(back.items) = Len(sections[k].items)
                     /\ Range(back.items) = {Swap(r) : r \in Range(sections[k].items)}
                     /\ {r.name : r \in Range(back.items)}
                          = {r.name : r \in Range(sections[k].items)}

\* a section whose diff has an Added, a Removed and a Changed record
C6_Witness ==
    /\ dpc = "diffed"
    /\ \E k \in KeyIndices :
         /\ Len(Items(k)) = 3
         /\ IsAdded(Items(k)[1]) /\ IsRemoved(Items(k)[2]) /\ IsChanged(Items(k)[3])

\* C7: formatResponse puts every record of the file's change list in exactly
\* one of the groups Added, Changed and Removed, renders one line per record,
\* and the three counts of the sub-header sum to the number of records.
C7_FormatPartitions ==
    dpc = "formatted" =>
        /\ \A i \in 1..Len(changes) :
             LET pkg == changes[i]
                 one == <<pkg>>
                 f == [name |-> TheFile.name, dependencies |-> one]
             IN  Len(added(f)) + Len(changed(f)) + Len(removed(f)) = 1
        /\ Len(block(TheFile)) = Len(changes)
        /\ \E c, a, r \in 0..Len(changes) :
             /\ c + a + r = Len(changes)
             /\ comment[10] = ToString(c)
             /\ comment[12] = ToString(a)
             /\ comment[14] = ToString(r)

----------------------------------------------------------------------------
(* Properties of run, checked under Spec *)

\* run has replaced the candidate files by their FileDiffs, index.js:44-52
Diffed == Len(files) > 0 /\ "dependencies" \in DOMAIN files[1]
SomeEmpty == \E i \in 1..Len(files) : files[i].dependencies = <<>>
CommentCalls == SelectSeq(calls, LAMBDA call : call.api = "comment")
HeadCalls ==
    SelectSeq(calls, LAMBDA call : call.api = "blob" /\ call.ref = ctx.head.sha)
BaseCalls ==
    SelectSeq(calls, LAMBDA call : call.api = "blob" /\ call.ref = ctx.base.sha)

Basename(path) == path[Len(path)]
NamesOf(fs) ==
    [i \in 1..Len(fs) |-> IF "filename" \in DOMAIN fs[i] THEN fs[i].filename ELSE fs[i].name]

\* C2: the candidate files are exactly the files of the compare response whose
\* status is "modified" and whose path has the basename package.json, at any
\* directory depth.
C2_CandidateIffModifiedBasename ==
    NamesOf(files)
      = NamesOf(SelectSeq(diff, LAMBDA el :
                    el.status = "modified" /\ Basename(el.filename) = "package.json"))

\* C8: with every change list non-empty, a dry run returns the formatted
\* comment as its message and issues no comment call; otherwise run issues
\* exactly one comment call, on the head SHA with the formatted comment as
\* body, as its last call, after the compare call and all blob fetches have
\* completed.  The dry-run flag is set when ctx.query.dry is truthy.
C8_DryRun ==
    /\ CommentCalls # <<>> => Diffed /\ ~SomeEmpty /\ ~Truthy(ctx.query, "dry")
    /\ (Diffed /\ ~SomeEmpty) =>
         LET body == formatResponse(files, ctx.base, ctx.head)
         IN  IF Truthy(ctx.query, "dry")
             THEN /\ pc = "done"
                  /\ result = [message |-> body]
                  /\ CommentCalls = <<>>
             ELSE /\ pc \in {"comment", "done", "error"}
                  /\ Len(CommentCalls) = 1
                  /\ CommentCalls[1].sha = ctx.head.sha
                  /\ CommentCalls[1].body = body
                  /\ calls[Len(calls)].api = "comment"
                  /\ calls[1].api = "compare"
                  /\ Len(calls) = 2 + 2 * Len(files)
                  /\ \A j \in 2..(Len(calls) - 1) : calls[j].api = "blob"
                  /\ Filled(newBlobs) /\ Len(newBlobs) = Len(files)
                  /\ Filled(oldBlobs) /\ Len(oldBlobs) = Len(files)

\* a dry run that ended with the formatted comment as its message
C8_Witness ==
    /\ pc = "done"
    /\ Diffed
    /\ ~SomeEmpty
    /\ ctx.query = [dry |-> "1"]
    /\ result = [message |-> formatResponse(files, ctx.base, ctx.head)]
    /\ Len(calls) = 3

Rejected ==
    \/ ctx.event # "pull_request"
    \/ ctx.signature # Hmac
    \/ ctx.action \notin {"opened", "synchronize"}

\* C9: an event of another type, with a bad signature or with an action that
\* is not accepted ends in an error: no compare, blob or comment call is ever
\* issued and no diff is computed for it.
C9_RejectionPrecedesWork ==
    Rejected =>
        /\ pc \in {"start", "error"}
        /\ pc = "error" => DOMAIN result = {"error"}
        /\ calls = <<>>
        /\ diff = <<>>
        /\ files = <<>>
        /\ newBlobs = <<>> /\ oldBlobs = <<>>

\* a signed pull_request event with the action closed, rejected
C9_Witness ==
    /\ pc = "error"
    /\ ctx.event = "pull_request"
    /\ ctx.signature = Hmac
    /\ ctx.action = "closed"
    /\ result = [error |-> "action not supported"]
    /\ calls = <<>>

====
